---- MODULE Spec2Model ----
(***************************************************************************)
(* A model of `confirm` (src/src/main.rs): an interactive yes/no prompt.   *)
(* Strings are sequences of one-character strings, so that trimming, case  *)
(* folding and decimal parsing are computed character by character.        *)
(***************************************************************************)
EXTENDS Integers, Sequences, FiniteSets, TLC

VARIABLES
    argv,       \* the raw command line (before MainOptions::parse)
    stdin_tty,  \* whether standard input is a terminal (atty)
    opts,       \* the Result of MainOptions::parse
    confirm,    \* the Confirm struct (NoConfirm before it is built)
    prompt,     \* ask_loop's local `prompt`
    pc,         \* position of the process
    i,          \* number of iterations of `for _ in 0..x.get()` started
    input_buf,  \* try_read_value's `input_buf` of the last attempt
    io,         \* what the terminal did at the last attempt
    parsed,     \* the Result<Answer> of the last try_read_value
    reads,      \* number of read_line / getch calls made
    answers,    \* the Answers get_user_input returned, one per attempt
    outcome,    \* which way ask_loop ended ("Prompting" while it runs)
    confirmed,  \* ask_loop's return value (meaningful once it returned)
    stdout,     \* the strings written to standard output, in order
    stderr,     \* the diagnostics written to standard error, in order
    exit_code   \* the process exit code (-1 while it runs)

vars == <<argv, stdin_tty, opts, confirm, prompt, pc, i, input_buf, io, parsed,
          reads, answers, outcome, confirmed, stdout, stderr, exit_code>>

----------------------------------------------------------------------------
(* Bounds *)

\* longest raw input enumerated by the classification specification
MaxLen == 3
\* longest --ask-count argument enumerated by the argument specification
MaxDigits == 3
\* largest --ask-count value the loop specification runs with
MaxCount == 3
\* cap on the attempts of a run under TryMode::Infinite
MaxAsk == 4

----------------------------------------------------------------------------
(* Characters and strings *)

UpperChars == <<"A","B","C","D","E","F","G","H","I","J","K","L","M",
                "N","O","P","Q","R","S","T","U","V","W","X","Y","Z">>
LowerChars == <<"a","b","c","d","e","f","g","h","i","j","k","l","m",
                "n","o","p","q","r","s","t","u","v","w","x","y","z">>
DigitChars == <<"0","1","2","3","4","5","6","7","8","9">>

\* char::is_whitespace on the characters a terminal delivers
WhiteSpace == {" ", "\t", "\n", "\r"}

\* u8::to_ascii_lowercase
ToAsciiLowerChar(c) ==
    IF \E k \in 1..26 : UpperChars[k] = c
    THEN LowerChars[CHOOSE k \in 1..26 : UpperChars[k] = c]
    ELSE c

\* str::to_ascii_lowercase
to_ascii_lowercase(s) == [k \in 1..Len(s) |-> ToAsciiLowerChar(s[k])]

RECURSIVE trim_start(_)
trim_start(s) ==
    IF s # <<>> /\ Head(s) \in WhiteSpace THEN trim_start(Tail(s)) ELSE s

RECURSIVE trim_end(_)
trim_end(s) ==
    IF s # <<>> /\ s[Len(s)] \in WhiteSpace
    THEN trim_end(SubSeq(s, 1, Len(s) - 1))
    ELSE s

\* str::trim
trim(s) == trim_end(trim_start(s))

\* all strings over `alphabet` of length at most n
StringsUpTo(alphabet, n) == UNION {[1..k -> alphabet] : k \in 0..n}

----------------------------------------------------------------------------
(* Results: Ok(val) and Err(val) *)

Ok(v)  == [ok |-> TRUE,  val |-> v]
Err(e) == [ok |-> FALSE, val |-> e]

\* enum Answer
Answer == {"Yes", "No", "Retry"}

\* enum TryMode
Infinite == [kind |-> "Infinite", n |-> 0]
Count(x) == [kind |-> "Count", n |-> x]

\* a from_str that compares without folding the case
Answer_from_str_case_sensitive(s) ==
    IF s = <<"y","e","s">> \/ s = <<"y">> THEN Ok("Yes")
    ELSE IF s = <<"n","o">> \/ s = <<"n">> THEN Ok("No")
    ELSE Ok("Retry")

\* impl FromStr for Answer
Answer_from_str(s) ==
    LET low == to_ascii_lowercase(s) IN
    IF low = <<"y","e","s">> \/ low = <<"y">> THEN Ok("Yes")
    ELSE IF low = <<"n","o">> \/ low = <<"n">> THEN Ok("No")
    ELSE Ok("Retry")

\* an is_full_word that lets the single letters through
is_full_word_or_letter(s) ==
    to_ascii_lowercase(s) \in {<<"y","e","s">>, <<"n","o">>, <<"y">>, <<"n">>}

is_full_word(s) ==
    to_ascii_lowercase(s) \in {<<"y","e","s">>, <<"n","o">>}

\* a parse_default_answer_opt that also takes the single letters
parse_default_answer_opt_letters(s) ==
    IF ~is_full_word_or_letter(s) /\ s # <<"r","e","t","r","y">>
    THEN Err("Invalid choice, choose either yes or no")
    ELSE Answer_from_str(s)

parse_default_answer_opt(s) ==
    IF ~is_full_word(s) /\ s # <<"r","e","t","r","y">>
    THEN Err("Invalid choice, choose either yes or no")
    ELSE Answer_from_str(s)

\* the value of one decimal digit, -1 for any other character
DigitValue(c) ==
    IF \E k \in 1..10 : DigitChars[k] = c
    THEN (CHOOSE k \in 1..10 : DigitChars[k] = c) - 1
    ELSE -1

\* the digit loop of u8::from_str: checked_mul(10) then checked_add(digit)
RECURSIVE ParseDigits(_, _)
ParseDigits(s, acc) ==
    IF s = <<>> THEN Ok(acc)
    ELSE IF DigitValue(Head(s)) < 0 THEN Err("invalid digit found in string")
    ELSE IF acc * 10 + DigitValue(Head(s)) > 255
         THEN Err("number too large to fit in target type")
    ELSE ParseDigits(Tail(s), acc * 10 + DigitValue(Head(s)))

\* <u8 as FromStr>::from_str: an optional leading '+', then digits
ParseU8(s) ==
    IF s = <<>> THEN Err("cannot parse integer from empty string")
    ELSE IF s = <<"+">> \/ s = <<"-">> THEN Err("invalid digit found in string")
    ELSE IF Head(s) = "+" THEN ParseDigits(Tail(s), 0)
    ELSE ParseDigits(s, 0)

\* a parser that wraps the count without the NonZeroU8 test
parse_retry_count_opt_unchecked(s) ==
    LET count == ParseU8(s) IN
    IF ~count.ok THEN count ELSE Ok(Count(count.val))

parse_retry_count_opt(s) ==
    LET count == ParseU8(s) IN
    IF ~count.ok THEN count
    ELSE IF count.val # 0 THEN Ok(Count(count.val))
    ELSE Ok(Infinite)

----------------------------------------------------------------------------
(* MainOptions and Confirm *)

\* clap's parse of the command line: the two try_from_str parsers, and
\* conflicts_with = "full_words" on --no-enter
MainOptions_parse(a) ==
    LET d == parse_default_answer_opt(a.default)
        c == parse_retry_count_opt(a.ask_count)
    IN  IF ~d.ok THEN Err(d.val)
        ELSE IF ~c.ok THEN Err(c.val)
        ELSE IF a.no_enter /\ a.full_words
             THEN Err("--no-enter cannot be used with --full-words")
        ELSE Ok([full_words |-> a.full_words,
                 default    |-> d.val,
                 no_enter   |-> a.no_enter,
                 ask_count  |-> c.val,
                 prompt     |-> a.prompt,
                 always_yes |-> a.always_yes,
                 always_no  |-> a.always_no])

\* MainOptions::into_confirm and Confirm::new
into_confirm(o) ==
    [default_response |-> o.default,
     prompt           |-> o.prompt,
     reader_type      |-> IF o.no_enter THEN "SingleChar" ELSE "NewlineBuffered",
     retry_mode       |-> o.ask_count,
     use_full_words   |-> o.full_words]

\* a render_option_box that puts the capitals on the other alternative
render_option_box_swapped(self) ==
    CASE  self.use_full_words /\ self.default_response = "Yes"
            -> <<"[","y","e","s","/","N","O","]">>
      []  self.use_full_words /\ self.default_response = "No"
            -> <<"[","Y","E","S","/","n","o","]">>
      []  self.use_full_words /\ self.default_response = "Retry"
            -> <<"[","y","e","s","/","n","o","]">>
      [] ~self.use_full_words /\ self.default_response = "Yes"
            -> <<"[","y","/","N","]">>
      [] ~self.use_full_words /\ self.default_response = "No"
            -> <<"[","Y","/","n","]">>
      [] ~self.use_full_words /\ self.default_response = "Retry"
            -> <<"[","y","/","n","]">>

render_option_box(self) ==
    CASE  self.use_full_words /\ self.default_response = "Yes"
            -> <<"[","Y","E","S","/","n","o","]">>
      []  self.use_full_words /\ self.default_response = "No"
            -> <<"[","y","e","s","/","N","O","]">>
      []  self.use_full_words /\ self.default_response = "Retry"
            -> <<"[","y","e","s","/","n","o","]">>
      [] ~self.use_full_words /\ self.default_response = "Yes"
            -> <<"[","Y","/","n","]">>
      [] ~self.use_full_words /\ self.default_response = "No"
            -> <<"[","y","/","N","]">>
      [] ~self.use_full_words /\ self.default_response = "Retry"
            -> <<"[","y","/","n","]">>

\* a prepare_prompt that forgets the blank between the text and the box
prepare_prompt_no_space(self) ==
    (self.prompt \o render_option_box(self)) \o <<":"," ">>

prepare_prompt(self) ==
    LET optionbox == render_option_box(self)
    IN  ((self.prompt \o <<" ">>) \o optionbox) \o <<":"," ">>

\* What the terminal does during one try_read_value:
\*   print_fails  print! cannot write the prompt (print! panics)
\*   flush_fails  stdout().flush() returns an error
\*   read_fails   read_line / getch returns an error
\*   echo_fails   getch succeeded, the println!() after it cannot write
\*   read         the read succeeded and delivered `line`
Terminal(kind, line) == [kind |-> kind, line |-> line]

\* a classification that asks again on every empty input
classify_ignoring_default(self, buf) ==
    LET response == trim(buf) IN
    IF response = <<>> THEN Ok("Retry")
    ELSE IF self.use_full_words /\ ~is_full_word(response)
         THEN Err("Please type yes or no")
    ELSE Answer_from_str(response)

\* lines 203-211 of try_read_value: the classification of `input_buf`
classify(self, buf) ==
    LET response == trim(buf) IN
    IF response = <<>> THEN Ok(self.default_response)
    ELSE IF self.use_full_words /\ ~is_full_word(response)
         THEN Err("Please type yes or no")
    ELSE Answer_from_str(response)

\* a try_read_value that reads a line without having written the prompt
try_read_value_no_print(self, p, t) ==
    IF t.kind = "print_fails"
    THEN [out |-> <<>>, panic |-> TRUE, read |-> 0, buf |-> <<>>,
          res |-> Err("panic")]
    ELSE IF t.kind = "flush_fails"
    THEN [out |-> <<p>>, panic |-> FALSE, read |-> 0, buf |-> <<>>,
          res |-> Err("io error")]
    ELSE IF t.kind = "read_fails"
    THEN [out |-> <<p>>, panic |-> FALSE, read |-> 1, buf |-> <<>>,
          res |-> Err("io error")]
    ELSE IF self.reader_type = "NewlineBuffered"
    THEN [out |-> <<>>, panic |-> FALSE, read |-> 1, buf |-> t.line,
          res |-> classify(self, t.line)]
    ELSE IF t.kind = "echo_fails"
    THEN [out |-> <<p>>, panic |-> TRUE, read |-> 1, buf |-> <<>>,
          res |-> Err("panic")]
    ELSE [out |-> <<p, <<"\n">>>>, panic |-> FALSE, read |-> 1, buf |-> t.line,
          res |-> classify(self, t.line)]

\* a try_read_value whose prompt is written with write!(..)? instead of
\* print!: a failed write is an Err like any other
try_read_value_print_err(self, p, t) ==
    IF t.kind \in {"print_fails", "flush_fails"}
    THEN [out |-> <<>>, panic |-> FALSE, read |-> 0, buf |-> <<>>,
          res |-> Err("io error")]
    ELSE IF t.kind = "read_fails"
    THEN [out |-> <<p>>, panic |-> FALSE, read |-> 1, buf |-> <<>>,
          res |-> Err("io error")]
    ELSE IF self.reader_type = "NewlineBuffered"
    THEN [out |-> <<p>>, panic |-> FALSE, read |-> 1, buf |-> t.line,
          res |-> classify(self, t.line)]
    ELSE IF t.kind = "echo_fails"
    THEN [out |-> <<p>>, panic |-> TRUE, read |-> 1, buf |-> <<>>,
          res |-> Err("panic")]
    ELSE [out |-> <<p, <<"\n">>>>, panic |-> FALSE, read |-> 1, buf |-> t.line,
          res |-> classify(self, t.line)]

\* Confirm::try_read_value: what it writes, whether it panics, the buffer it
\* read and the Result it returns
try_read_value(self, p, t) ==
    IF t.kind = "print_fails"
    THEN [out |-> <<>>, panic |-> TRUE, read |-> 0, buf |-> <<>>,
          res |-> Err("panic")]
    ELSE IF t.kind = "flush_fails"
    THEN [out |-> <<p>>, panic |-> FALSE, read |-> 0, buf |-> <<>>,
          res |-> Err("io error")]
    ELSE IF t.kind = "read_fails"
    THEN [out |-> <<p>>, panic |-> FALSE, read |-> 1, buf |-> <<>>,
          res |-> Err("io error")]
    ELSE IF self.reader_type = "NewlineBuffered"
    THEN [out |-> <<p>>, panic |-> FALSE, read |-> 1, buf |-> t.line,
          res |-> classify(self, t.line)]
    ELSE IF t.kind = "echo_fails"
    THEN [out |-> <<p>>, panic |-> TRUE, read |-> 1, buf |-> <<>>,
          res |-> Err("panic")]
    ELSE [out |-> <<p, <<"\n">>>>, panic |-> FALSE, read |-> 1, buf |-> t.line,
          res |-> classify(self, t.line)]

\* a get_user_input that takes an error for a negative answer
get_user_input_err_is_no(r) ==
    IF r.ok
    THEN [answer |-> r.val, err |-> <<>>]
    ELSE [answer |-> "No",
          err    |-> << <<"Error while reading user input: ", r.val>> >>]

\* a get_user_input that drops the error without reporting it
get_user_input_silent(r) ==
    [answer |-> IF r.ok THEN r.val ELSE "Retry", err |-> <<>>]

\* Confirm::get_user_input: the Answer, and what it writes to stderr
get_user_input(r) ==
    IF r.ok
    THEN [answer |-> r.val, err |-> <<>>]
    ELSE [answer |-> "Retry",
          err    |-> << <<"Error while reading user input: ", r.val>> >>]

\* a loop that runs one iteration too many
LoopRange_inclusive(x) == 0..x

\* the range of `for _ in 0..x.get()`
LoopRange(x) == 0..(x - 1)

\* an exit code with the test of `confirmed` inverted
ExitCode_inverted(c) == IF c THEN 1 ELSE 0

\* main, lines 271-275: the exit code for ask_loop's return value
ExitCode(c) == IF ~c THEN 1 ELSE 0

----------------------------------------------------------------------------
(* The process *)

NoConfirm ==
    [default_response |-> "none", prompt |-> <<>>, reader_type |-> "none",
     retry_mode |-> [kind |-> "none", n |-> 0], use_full_words |-> FALSE]

\* main, lines 262-265: the tty warning, then MainOptions::parse; a parse
\* error makes clap report it and exit with status 2
main_parse ==
    /\ pc = "main"
    /\ LET warned == IF stdin_tty THEN stderr
                     ELSE Append(stderr, <<"Warning: using confirm when stdin is not a tty is not supported.", "">>)
           o == MainOptions_parse(argv)
       IN  /\ opts' = o
           /\ IF o.ok
              THEN /\ stderr' = warned
                   /\ pc' = "parsed"
                   /\ exit_code' = exit_code
              ELSE /\ stderr' = Append(warned, <<"error: ", o.val>>)
                   /\ pc' = "exited"
                   /\ exit_code' = 2
    /\ UNCHANGED <<argv, stdin_tty, confirm, prompt, i, input_buf, io, parsed,
                   reads, answers, outcome, confirmed, stdout>>

\* a dispatch that tests --no before --yes
main_dispatch_no_first ==
    /\ pc = "parsed"
    /\ IF opts.val.always_no
       THEN /\ pc' = "exited"
            /\ exit_code' = 1
            /\ UNCHANGED <<confirm, prompt>>
       ELSE IF opts.val.always_yes
       THEN /\ pc' = "exited"
            /\ exit_code' = 0
            /\ UNCHANGED <<confirm, prompt>>
       ELSE /\ confirm' = into_confirm(opts.val)
            /\ prompt' = prepare_prompt(into_confirm(opts.val))
            /\ pc' = "ask_first"
            /\ exit_code' = exit_code
    /\ UNCHANGED <<argv, stdin_tty, opts, i, input_buf, io, parsed, reads,
                   answers, outcome, confirmed, stdout, stderr>>

\* main, lines 266-271: --yes, --no, or Confirm::from(opts) and the first
\* statement of ask_loop (prepare_prompt)
main_dispatch ==
    /\ pc = "parsed"
    /\ IF opts.val.always_yes
       THEN /\ pc' = "exited"
            /\ exit_code' = 0
            /\ UNCHANGED <<confirm, prompt>>
       ELSE IF opts.val.always_no
       THEN /\ pc' = "exited"
            /\ exit_code' = 1
            /\ UNCHANGED <<confirm, prompt>>
       ELSE /\ confirm' = into_confirm(opts.val)
            /\ prompt' = prepare_prompt(into_confirm(opts.val))
            /\ pc' = "ask_first"
            /\ exit_code' = exit_code
    /\ UNCHANGED <<argv, stdin_tty, opts, i, input_buf, io, parsed, reads,
                   answers, outcome, confirmed, stdout, stderr>>

\* an ask! whose Answer::No arm does not return
ask_no_falls_through(t, next) ==
    LET r == try_read_value(confirm, prompt, t)
        g == get_user_input(r.res)
    IN  /\ stdout' = stdout \o r.out
        /\ input_buf' = r.buf
        /\ io' = t.kind
        /\ reads' = reads + r.read
        /\ IF r.panic
           THEN /\ pc' = "exited"
                /\ exit_code' = 101
                /\ UNCHANGED <<parsed, answers, outcome, confirmed, stderr>>
           ELSE /\ parsed' = r.res
                /\ stderr' = stderr \o g.err
                /\ answers' = Append(answers, g.answer)
                /\ exit_code' = exit_code
                /\ IF g.answer = "Yes"
                   THEN /\ pc' = "returned"
                        /\ outcome' = "AcceptedTrue"
                        /\ confirmed' = TRUE
                   ELSE /\ pc' = next
                        /\ UNCHANGED <<outcome, confirmed>>
        /\ UNCHANGED <<argv, stdin_tty, opts, confirm, prompt>>

\* the ask! macro (lines 224-236) with the terminal doing `t`; `next` is
\* where the loop goes on after Answer::Retry
ask(t, next) ==
    LET r == try_read_value(confirm, prompt, t)
        g == get_user_input(r.res)
    IN  /\ stdout' = stdout \o r.out
        /\ input_buf' = r.buf
        /\ io' = t.kind
        /\ reads' = reads + r.read
        /\ IF r.panic
           THEN /\ pc' = "exited"
                /\ exit_code' = 101
                /\ UNCHANGED <<parsed, answers, outcome, confirmed, stderr>>
           ELSE /\ parsed' = r.res
                /\ stderr' = stderr \o g.err
                /\ answers' = Append(answers, g.answer)
                /\ exit_code' = exit_code
                /\ CASE g.answer = "Yes" ->
                          /\ pc' = "returned"
                          /\ outcome' = "AcceptedTrue"
                          /\ confirmed' = TRUE
                     [] g.answer = "No" ->
                          /\ pc' = "returned"
                          /\ outcome' = "AcceptedFalse"
                          /\ confirmed' = FALSE
                     [] g.answer = "Retry" ->
                          /\ pc' = next
                          /\ UNCHANGED <<outcome, confirmed>>
        /\ UNCHANGED <<argv, stdin_tty, opts, confirm, prompt>>

\* the raw lines read_line delivers in the loop specification: end of file
\* (nothing read), blank lines, the accepted words in several cases, with
\* and without surrounding blanks, and unrecognised words
Lines ==
    { <<>>, <<"\n">>, <<" ","\n">>,
      <<"y","\n">>, <<"Y","\n">>, <<"n","\n">>, <<"N","\n">>,
      <<"y","e","s","\n">>, <<"Y","e","S","\n">>, <<"y","e","s">>,
      <<"n","o","\n">>, <<"N","O","\r","\n">>, <<" ","n","o"," ","\n">>,
      <<"x","\n">>, <<"y","e","s","s","\n">>, <<"y","e","\n">> }

\* the keys getch delivers in the loop specification
Keys == { <<"y">>, <<"Y">>, <<"n">>, <<"N">>, <<"\r">>, <<" ">>, <<"x">> }

\* everything the terminal can do during one attempt of `self`
Terminals(self, lines, keys) ==
    {Terminal(k, <<>>) : k \in {"print_fails", "flush_fails", "read_fails"}}
    \cup (IF self.reader_type = "NewlineBuffered"
          THEN {Terminal("read", l) : l \in lines}
          ELSE {Terminal("echo_fails", <<>>)}
               \cup {Terminal("read", k) : k \in keys})

\* line 238: `ask!(); // We always ask it at least once.`
ask_first_on(lines, keys) ==
    /\ pc = "ask_first"
    /\ \E t \in Terminals(confirm, lines, keys) : ask(t, "retry")
    /\ i' = i

ask_first == ask_first_on(Lines, Keys)

\* lines 241-243: TryMode::Infinite => loop { ask!(); }
ask_infinite ==
    /\ pc = "retry"
    /\ confirm.retry_mode.kind = "Infinite"
    /\ Len(answers) < MaxAsk
    /\ \E t \in Terminals(confirm, Lines, Keys) : ask(t, "retry")
    /\ i' = i

\* a counted loop whose iteration count never advances
ask_count_no_advance ==
    /\ pc = "retry"
    /\ confirm.retry_mode.kind = "Count"
    /\ i \in LoopRange(confirm.retry_mode.n)
    /\ \E t \in Terminals(confirm, Lines, Keys) : ask(t, "retry")
    /\ i' = i

\* lines 244-247: TryMode::Count(x) => for _ in 0..x.get() { ask!(); }
ask_count ==
    /\ pc = "retry"
    /\ confirm.retry_mode.kind = "Count"
    /\ i \in LoopRange(confirm.retry_mode.n)
    /\ \E t \in Terminals(confirm, Lines, Keys) : ask(t, "retry")
    /\ i' = i + 1

\* an exhaustion that returns false without the eprintln!
exceeded_silent ==
    /\ pc = "retry"
    /\ confirm.retry_mode.kind = "Count"
    /\ i \notin LoopRange(confirm.retry_mode.n)
    /\ outcome' = "Exhausted"
    /\ confirmed' = FALSE
    /\ pc' = "returned"
    /\ UNCHANGED <<argv, stdin_tty, opts, confirm, prompt, i, input_buf, io,
                   parsed, reads, answers, stdout, stderr, exit_code>>

\* the retry count read as a raw number, 0 (Infinite) not told apart
exceeded_any_mode ==
    /\ pc = "retry"
    /\ i \notin LoopRange(confirm.retry_mode.n)
    /\ stderr' = Append(stderr, <<"Retry count exceeded.  Aborting...", "">>)
    /\ outcome' = "Exhausted"
    /\ confirmed' = FALSE
    /\ pc' = "returned"
    /\ UNCHANGED <<argv, stdin_tty, opts, confirm, prompt, i, input_buf, io,
                   parsed, reads, answers, stdout, exit_code>>

\* lines 248-249: the range is used up
exceeded ==
    /\ pc = "retry"
    /\ confirm.retry_mode.kind = "Count"
    /\ i \notin LoopRange(confirm.retry_mode.n)
    /\ stderr' = Append(stderr, <<"Retry count exceeded.  Aborting...", "">>)
    /\ outcome' = "Exhausted"
    /\ confirmed' = FALSE
    /\ pc' = "returned"
    /\ UNCHANGED <<argv, stdin_tty, opts, confirm, prompt, i, input_buf, io,
                   parsed, reads, answers, stdout, exit_code>>

\* main, lines 271-275
main_exit ==
    /\ pc = "returned"
    /\ exit_code' = ExitCode(confirmed)
    /\ pc' = "exited"
    /\ UNCHANGED <<argv, stdin_tty, opts, confirm, prompt, i, input_buf, io,
                   parsed, reads, answers, outcome, confirmed, stdout, stderr>>

----------------------------------------------------------------------------
(* The loop specification: whole runs of the process *)

\* the decimal numeral of n, for 0 <= n <= 999
Numeral(n) ==
    IF n < 10 THEN <<DigitChars[n + 1]>>
    ELSE IF n < 100 THEN <<DigitChars[(n \div 10) + 1], DigitChars[(n % 10) + 1]>>
    ELSE <<DigitChars[(n \div 100) + 1], DigitChars[((n \div 10) % 10) + 1],
           DigitChars[(n % 10) + 1]>>

DefaultArgs ==
    { <<"y","e","s">>, <<"n","o">>, <<"r","e","t","r","y">>,
      <<"Y","E","S">>, <<"y">> }

AskCountArgs ==
    {Numeral(n) : n \in 0..MaxCount} \cup {Numeral(256), <<"x">>}

PromptArgs == { <<"C","o","n","t","i","n","u","e","?">>, <<"G","o">> }

ArgvSet(defaults, counts, prompts) ==
    [full_words : BOOLEAN, default : defaults, no_enter : BOOLEAN,
     ask_count : counts, prompt : prompts,
     always_yes : BOOLEAN, always_no : BOOLEAN]

\* the process before main runs
Started ==
    /\ opts = Err("not parsed")
    /\ confirm = NoConfirm
    /\ prompt = <<>>
    /\ pc = "main"
    /\ i = 0
    /\ input_buf = <<>>
    /\ io = "none"
    /\ parsed = Err("none")
    /\ reads = 0
    /\ answers = <<>>
    /\ outcome = "Prompting"
    /\ confirmed = FALSE
    /\ stdout = <<>>
    /\ stderr = <<>>
    /\ exit_code = -1

Init ==
    /\ argv \in ArgvSet(DefaultArgs, AskCountArgs, PromptArgs)
    /\ stdin_tty \in BOOLEAN
    /\ Started

Next ==
    \/ main_parse
    \/ main_dispatch
    \/ ask_first
    \/ ask_infinite
    \/ ask_count
    \/ exceeded
    \/ main_exit

Spec == Init /\ [][Next]_vars

----------------------------------------------------------------------------
(* The classification specification: one attempt, every short input *)

\* the letters of the accepted words in both cases, two blanks, another letter
InputChars == {"y","Y","e","E","s","S","n","N","o","O"," ","\n","x"}

ask_any_input == ask_first_on(StringsUpTo(InputChars, MaxLen), {})

\* the process at line 238 of a run without --no-enter, --yes or --no
InitParse ==
    /\ argv \in [full_words : BOOLEAN,
                 default : {<<"y","e","s">>, <<"n","o">>, <<"r","e","t","r","y">>},
                 no_enter : {FALSE}, ask_count : {Numeral(0)},
                 prompt : {<<"G","o">>},
                 always_yes : {FALSE}, always_no : {FALSE}]
    /\ stdin_tty = TRUE
    /\ opts = MainOptions_parse(argv)
    /\ confirm = into_confirm(opts.val)
    /\ prompt = prepare_prompt(confirm)
    /\ pc = "ask_first"
    /\ i = 0
    /\ input_buf = <<>>
    /\ io = "none"
    /\ parsed = Err("none")
    /\ reads = 0
    /\ answers = <<>>
    /\ outcome = "Prompting"
    /\ confirmed = FALSE
    /\ stdout = <<>>
    /\ stderr = <<>>
    /\ exit_code = -1

NextParse == ask_any_input

SpecParse == InitParse /\ [][NextParse]_vars

----------------------------------------------------------------------------
(* The argument specification: MainOptions::parse on every short --ask-count *)

CountChars == {"0","1","2","3","4","5","6","7","8","9","+","-","x"}

InitArgs ==
    /\ argv \in [full_words : {FALSE}, default : {<<"r","e","t","r","y">>},
                 no_enter : {FALSE},
                 ask_count : StringsUpTo(CountChars, MaxDigits),
                 prompt : {<<"G","o">>},
                 always_yes : {FALSE}, always_no : {FALSE}]
    /\ stdin_tty = TRUE
    /\ Started

NextArgs == main_parse

SpecArgs == InitArgs /\ [][NextArgs]_vars

----------------------------------------------------------------------------
(* Vocabulary of the properties *)

\* number of times the prompt has been written to standard output
Prompts == Cardinality({k \in DOMAIN stdout : stdout[k] = prompt})

\* number of attempts get_user_input has completed
Attempts == Len(answers)

ExceededMsg == <<"Retry count exceeded.  Aborting...", "">>

ExceededEmitted == \E k \in DOMAIN stderr : stderr[k] = ExceededMsg

\* number of "Error while reading user input" diagnostics on stderr
ReadErrors ==
    Cardinality({k \in DOMAIN stderr :
                    stderr[k][1] = "Error while reading user input: "})

\* number of attempts that ended in Answer::Retry
Retries == Cardinality({k \in DOMAIN answers : answers[k] = "Retry"})

\* ask_loop has returned
Returned == pc \in {"returned", "exited"} /\ outcome # "Prompting"

Bounded == confirm.retry_mode.kind = "Count"
Unlimited == confirm.retry_mode.kind = "Infinite"

\* no attempt so far gave Yes or No
NoneDefinitive == \A k \in DOMAIN answers : answers[k] = "Retry"

----------------------------------------------------------------------------
(* C1 *)

\* C1: a completed ask_loop ended in Accepted(true), Accepted(false) or
\* Exhausted and nothing else; it returned true exactly in Accepted(true);
\* the process then exits with 0 exactly in Accepted(true) and with 1 in
\* Accepted(false) and in Exhausted.
C1_ExitCodes ==
    /\ pc = "returned" => outcome # "Prompting"
    /\ Returned =>
         /\ outcome \in {"AcceptedTrue", "AcceptedFalse", "Exhausted"}
         /\ confirmed <=> outcome = "AcceptedTrue"
    /\ (Returned /\ pc = "exited") =>
         /\ exit_code = 0 <=> outcome = "AcceptedTrue"
         /\ outcome \in {"AcceptedFalse", "Exhausted"} => exit_code = 1
         /\ exit_code \in {0, 1}

\* a run that was exhausted and has exited with 1
C1_Witness ==
    /\ pc = "exited"
    /\ outcome = "Exhausted"
    /\ exit_code = 1
    /\ Attempts >= 2

----------------------------------------------------------------------------
(* C2 *)

\* C2: under Count(n) at most 1 + n prompts are ever written; a run whose
\* attempts gave no Yes and no No goes on until 1 + n attempts are made, then
\* can only end, and once ask_loop has returned it made exactly 1 + n prompts,
\* ended in Exhausted, wrote "Retry count exceeded" and returned false.
C2_BoundedPrompts ==
    Bounded =>
      LET n == confirm.retry_mode.n IN
      /\ Prompts <= 1 + n
      /\ Attempts <= 1 + n
      /\ (pc = "retry" /\ Attempts < 1 + n) =>
            (ENABLED ask_count /\ ~ENABLED exceeded)
      /\ (pc = "retry" /\ Attempts = 1 + n) =>
            (ENABLED exceeded /\ ~ENABLED ask_count)
      /\ (Returned /\ NoneDefinitive) =>
            /\ Attempts = 1 + n
            /\ Prompts = 1 + n
            /\ outcome = "Exhausted"
            /\ ExceededEmitted
            /\ confirmed = FALSE

\* Count(3), four attempts without Yes or No, exhausted
C2_Witness ==
    /\ Bounded
    /\ confirm.retry_mode.n = 3
    /\ Returned
    /\ NoneDefinitive
    /\ Prompts = 4
    /\ outcome = "Exhausted"

----------------------------------------------------------------------------
(* C3 *)

\* C3: with --ask-count n, n > 0, the question is asked at most n times in
\* the whole run.
C3_AskedAtMostCount ==
    Bounded => Prompts <= confirm.retry_mode.n

----------------------------------------------------------------------------
(* C4 *)

\* C4: under Infinite the loop is never Exhausted, never writes "Retry count
\* exceeded", and after Answer::Retry can always ask again; when the attempts
\* so far were N times Retry and the line read now is "yes", N + 1 prompts
\* have been written and ask_loop has returned true.
C4_Unlimited ==
    Unlimited =>
      /\ outcome # "Exhausted"
      /\ ~ExceededEmitted
      /\ ~ENABLED exceeded
      /\ (pc = "retry" /\ Attempts < MaxAsk) => ENABLED ask_infinite
      /\ (io = "read" /\ trim(input_buf) = <<"y","e","s">>) =>
            /\ Returned
            /\ outcome = "AcceptedTrue"
            /\ confirmed = TRUE
            /\ LET N == Attempts - 1 IN
                 /\ \A k \in 1..N : answers[k] = "Retry"
                 /\ Prompts = N + 1

\* Infinite, three attempts without an answer and then "yes"
C4_Witness ==
    /\ Unlimited
    /\ Attempts = 4
    /\ io = "read"
    /\ trim(input_buf) = <<"y","e","s">>
    /\ Prompts = 4
    /\ confirmed = TRUE
    /\ pc = "exited"

----------------------------------------------------------------------------
(* C5 *)

----------------------------------------------------------------------------
(* C6 *)

\* iterations of ask! the loop can still run (Count only)
AttemptsLeft ==
    (IF pc = "ask_first" THEN 1 ELSE 0)
    + Cardinality({k \in LoopRange(confirm.retry_mode.n) : k >= i})

AnyAsk == ask_first \/ ask_infinite \/ ask_count

\* C6: an attempt whose input is empty after trimming yields the configured
\* default, with and without full words: default Yes ends the loop in
\* Accepted(true), default No in Accepted(false), and after either no prompt
\* follows; with no default the attempt is a Retry, the loop goes on and one
\* of its remaining attempts is used up.
C6_EmptyInput ==
    /\ [](pc = "returned" => ~ENABLED AnyAsk)
    /\ [][ (Attempts' = Attempts + 1 /\ io' = "read" /\ trim(input_buf') = <<>>) =>
             LET d == confirm.default_response IN
             /\ parsed' = Ok(d)
             /\ answers'[Attempts'] = d
             /\ d = "Yes" => /\ pc' = "returned"
                             /\ outcome' = "AcceptedTrue"
                             /\ confirmed' = TRUE
             /\ d = "No"  => /\ pc' = "returned"
                             /\ outcome' = "AcceptedFalse"
                             /\ confirmed' = FALSE
             /\ d = "Retry" => /\ pc' = "retry"
                               /\ outcome' = "Prompting"
                               /\ Bounded => AttemptsLeft' = AttemptsLeft - 1 ]_vars

\* full words, default Yes: a blank line at the second attempt is accepted
C6_Witness ==
    /\ confirm.use_full_words
    /\ confirm.default_response = "Yes"
    /\ Attempts = 2
    /\ io = "read"
    /\ input_buf = <<" ","\n">>
    /\ outcome = "AcceptedTrue"
    /\ Prompts = 2

----------------------------------------------------------------------------
(* C7, C8 *)

YesWords == {<<a, b, c>> : a \in {"y","Y"}, b \in {"e","E"}, c \in {"s","S"}}
NoWords  == {<<a, b>> : a \in {"n","N"}, b \in {"o","O"}}
YesLetters == {<<"y">>, <<"Y">>}
NoLetters  == {<<"n">>, <<"N">>}

\* the attempt of the classification specification read `input_buf`
ReadOnce == Attempts = 1 /\ io = "read"

\* C7: without full words, a trimmed input that is a case variant of "yes" or
\* "y" is classified Yes, a case variant of "no" or "n" is classified No, and
\* every other non-empty trimmed input is classified Retry.
C7_NonStrictClassification ==
    (ReadOnce /\ ~confirm.use_full_words /\ trim(input_buf) # <<>>) =>
        LET r == trim(input_buf) IN
        /\ parsed.ok
        /\ r \in YesWords \cup YesLetters => parsed.val = "Yes"
        /\ r \in NoWords \cup NoLetters => parsed.val = "No"
        /\ r \notin YesWords \cup YesLetters \cup NoWords \cup NoLetters
              => parsed.val = "Retry"
        /\ answers[1] = parsed.val

\* "YeS" without full words is Yes
C7_Witness ==
    /\ ReadOnce
    /\ ~confirm.use_full_words
    /\ input_buf = <<"Y","e","S">>
    /\ parsed = Ok("Yes")
    /\ outcome = "AcceptedTrue"

\* C8: with full words, every case variant of "yes" ends the loop in
\* Accepted(true) and every case variant of "no" in Accepted(false); every
\* other non-empty trimmed input, "y" and "n" included, is rejected with
\* "Please type yes or no", is never accepted, and the loop goes on.
C8_StrictClassification ==
    (ReadOnce /\ confirm.use_full_words /\ trim(input_buf) # <<>>) =>
        LET r == trim(input_buf) IN
        /\ r \in YesWords => (parsed = Ok("Yes") /\ outcome = "AcceptedTrue"
                              /\ confirmed = TRUE)
        /\ r \in NoWords => (parsed = Ok("No") /\ outcome = "AcceptedFalse"
                             /\ confirmed = FALSE /\ pc = "returned")
        /\ r \notin YesWords \cup NoWords =>
              /\ parsed = Err("Please type yes or no")
              /\ answers[1] = "Retry"
              /\ outcome = "Prompting"
              /\ pc = "retry"
              /\ stderr = << <<"Error while reading user input: ",
                               "Please type yes or no">> >>

\* "y" with full words is rejected
C8_Witness ==
    /\ ReadOnce
    /\ confirm.use_full_words
    /\ input_buf = <<"y","\n">>
    /\ parsed = Err("Please type yes or no")
    /\ pc = "retry"

----------------------------------------------------------------------------
(* C9 *)

\* the option box the specification's table gives
BoxTable(strict, default) ==
    CASE  strict /\ default = "Yes"   -> <<"[","Y","E","S","/","n","o","]">>
      []  strict /\ default = "No"    -> <<"[","y","e","s","/","N","O","]">>
      []  strict /\ default = "Retry" -> <<"[","y","e","s","/","n","o","]">>
      [] ~strict /\ default = "Yes"   -> <<"[","Y","/","n","]">>
      [] ~strict /\ default = "No"    -> <<"[","y","/","N","]">>
      [] ~strict /\ default = "Retry" -> <<"[","y","/","n","]">>

\* ask_loop has been entered
Asking == pc \in {"ask_first", "retry", "returned"} \/ Attempts > 0 \/ io # "none"

\* C9: the prompt ask_loop writes is the PROMPT argument, a blank, the option
\* box of the table, a colon and a blank; "Continue?" with default No and
\* without full words gives exactly "Continue? [y/N]: "; nothing else than
\* this prompt (and the line break after a key press) is written to stdout.
C9_RenderedPrompt ==
    Asking =>
      /\ prompt = argv.prompt \o <<" ">>
                  \o BoxTable(confirm.use_full_words, confirm.default_response)
                  \o <<":", " ">>
      /\ (/\ argv.prompt = <<"C","o","n","t","i","n","u","e","?">>
          /\ confirm.default_response = "No"
          /\ ~confirm.use_full_words)
         => prompt = <<"C","o","n","t","i","n","u","e","?"," ",
                       "[","y","/","N","]",":"," ">>
      /\ \A k \in DOMAIN stdout : stdout[k] \in {prompt, <<"\n">>}
      /\ Attempts > 0 => stdout[1] = prompt

\* "Continue? [y/N]: " has been written
C9_Witness ==
    /\ Attempts = 1
    /\ confirm.default_response = "No"
    /\ ~confirm.use_full_words
    /\ stdout = << <<"C","o","n","t","i","n","u","e","?"," ",
                     "[","y","/","N","]",":"," ">> >>

----------------------------------------------------------------------------
(* C10 *)

IsNumeral(s) == s # <<>> /\ \A k \in DOMAIN s : DigitValue(s[k]) >= 0

\* the integer a numeral denotes
RECURSIVE NumeralValue(_)
NumeralValue(s) ==
    IF s = <<>> THEN 0
    ELSE 10 * NumeralValue(SubSeq(s, 1, Len(s) - 1)) + DigitValue(s[Len(s)])

\* MainOptions::parse has run on the command line
ArgsParsed == pc # "main"

\* C10: --ask-count 0 gives Infinite, every positive integer n gives
\* Count(n) with that n, and Count(0) is never produced.
C10_AnyPositiveCount ==
    (ArgsParsed /\ IsNumeral(argv.ask_count)) =>
        LET v == NumeralValue(argv.ask_count) IN
        /\ opts.ok
        /\ v = 0 => opts.val.ask_count = Infinite
        /\ v > 0 => opts.val.ask_count = Count(v)

\* C10, amended: --ask-count 0 gives Infinite, every integer n in 1..255
\* gives Count(n) with that n, a numeral above 255 is refused (the parse fails
\* and the process exits with status 2 before any prompt), and Count(0) is
\* never produced.
C10_CountUpTo255 ==
    /\ (ArgsParsed /\ IsNumeral(argv.ask_count)) =>
          LET v == NumeralValue(argv.ask_count) IN
          /\ v = 0 => (opts.ok /\ opts.val.ask_count = Infinite)
          /\ v \in 1..255 => (opts.ok /\ opts.val.ask_count = Count(v))
          /\ v > 255 => (/\ ~opts.ok
                         /\ pc = "exited"
                         /\ exit_code = 2
                         /\ stdout = <<>>)
    /\ (ArgsParsed /\ opts.ok /\ opts.val.ask_count.kind = "Count") =>
          opts.val.ask_count.n \in 1..255

\* --ask-count 255 gives Count(255)
C10_Witness ==
    /\ ArgsParsed
    /\ argv.ask_count = <<"2","5","5">>
    /\ opts.ok
    /\ opts.val.ask_count = Count(255)

----------------------------------------------------------------------------
(* The default-word specification: MainOptions::parse on every short
   --default word and on the variants of "retry" *)

DefaultChars == {"y","Y","e","E","s","S","n","N","o","O","r","t"}

DefaultWords ==
    StringsUpTo(DefaultChars, MaxLen)
    \cup { <<"r","e","t","r","y">>, <<"R","e","t","r","y">>,
           <<"R","E","T","R","Y">>, <<"r","e","t","r">>,
           <<"r","e","t","r","y"," ">>, <<" ","y","e","s">> }

InitDefault ==
    /\ argv \in [full_words : BOOLEAN, default : DefaultWords,
                 no_enter : {FALSE}, ask_count : {Numeral(3)},
                 prompt : {<<"G","o">>},
                 always_yes : {FALSE}, always_no : {FALSE}]
    /\ stdin_tty = TRUE
    /\ Started

NextDefault == main_parse

SpecDefault == InitDefault /\ [][NextDefault]_vars

----------------------------------------------------------------------------
(* C11 *)

\* C11: --default yes, no and retry give the default Yes, No and none; every
\* other word is refused: the parse fails and the process exits non-zero
\* without a prompt.
C11_OnlyThreeWords ==
    ArgsParsed =>
        LET w == argv.default IN
        /\ w = <<"y","e","s">> => (opts.ok /\ opts.val.default = "Yes")
        /\ w = <<"n","o">> => (opts.ok /\ opts.val.default = "No")
        /\ w = <<"r","e","t","r","y">> => (opts.ok /\ opts.val.default = "Retry")
        /\ w \notin {<<"y","e","s">>, <<"n","o">>, <<"r","e","t","r","y">>}
              => (~opts.ok /\ pc = "exited" /\ exit_code # 0 /\ stdout = <<>>)

\* C11, amended: every case variant of "yes" gives the default Yes, every
\* case variant of "no" the default No, and exactly "retry" gives no default;
\* every other word ("y", "n" and "Retry" included) is refused: the parse
\* fails, the process exits with status 2, nothing is written to stdout,
\* nothing is read and no step of the program follows.
C11_DefaultWord ==
    ArgsParsed =>
        LET w == argv.default IN
        /\ w \in YesWords => (opts.ok /\ opts.val.default = "Yes")
        /\ w \in NoWords => (opts.ok /\ opts.val.default = "No")
        /\ w = <<"r","e","t","r","y">> => (opts.ok /\ opts.val.default = "Retry")
        /\ w \notin YesWords \cup NoWords \cup {<<"r","e","t","r","y">>} =>
              /\ ~opts.ok
              /\ pc = "exited"
              /\ exit_code = 2
              /\ stdout = <<>>
              /\ reads = 0
              /\ ~ENABLED Next

\* --default y is refused
C11_Witness ==
    /\ ArgsParsed
    /\ argv.default = <<"y">>
    /\ ~opts.ok
    /\ exit_code = 2
    /\ stdout = <<>>

----------------------------------------------------------------------------
(* C12 *)

----------------------------------------------------------------------------
(* C13 *)

IoErrorMsg == <<"Error while reading user input: ", "io error">>

\* number of I/O errors reported on stderr
IoErrors == Cardinality({k \in DOMAIN stderr : stderr[k] = IoErrorMsg})

\* every attempt so far called read_line / getch and the call failed
EveryReadFailed ==
    /\ Attempts >= 1
    /\ reads = Attempts
    /\ IoErrors = Attempts

\* C13: an attempt whose read fails does not end the loop or the process: it
\* reports the error on stderr, counts as Answer::Retry, leaves the loop
\* prompting and uses up one of the remaining attempts; when every read of a
\* run under Count(n) failed, the loop can always go on or end, and once it
\* has returned it made exactly 1 + n attempts, is Exhausted and returned
\* false.
C13_ReadFailure ==
    /\ []((Bounded /\ pc = "retry") => ENABLED (ask_count \/ exceeded))
    /\ []((Bounded /\ Returned /\ EveryReadFailed) =>
            /\ Attempts = 1 + confirm.retry_mode.n
            /\ Prompts = 1 + confirm.retry_mode.n
            /\ outcome = "Exhausted"
            /\ confirmed = FALSE)
    /\ [][ (Attempts' = Attempts + 1 /\ io' = "read_fails") =>
             /\ reads' = reads + 1
             /\ parsed' = Err("io error")
             /\ answers'[Attempts'] = "Retry"
             /\ stderr' = Append(stderr, IoErrorMsg)
             /\ pc' = "retry"
             /\ outcome' = "Prompting"
             /\ exit_code' = -1
             /\ Bounded => AttemptsLeft' = AttemptsLeft - 1 ]_vars

\* Count(2): three reads, all failed, exhausted, exit 1
C13_Witness ==
    /\ Bounded
    /\ confirm.retry_mode.n = 2
    /\ EveryReadFailed
    /\ Attempts = 3
    /\ outcome = "Exhausted"
    /\ pc = "exited"
    /\ exit_code = 1

----------------------------------------------------------------------------
(* C14 *)

\* the process was ended by a failure inside ask_loop
Aborted == pc = "exited" /\ outcome = "Prompting" /\ exit_code \notin {0, 1, 2}

\* C14: when the prompt cannot be written or flushed the process ends (no
\* retry, no budget used); after every other failure the loop goes on.
C14_WriteOrFlushFatal ==
    /\ io \in {"print_fails", "flush_fails"} => Aborted
    /\ (io = "read_fails" \/ (io = "read" /\ ~parsed.ok)) => ~Aborted

\* C14, amended: when print! cannot write the prompt the process ends at once
\* by a panic (status 101), without a read, a diagnostic or a retry, and so
\* it does when the println! after a key press cannot write; a failed flush
\* of the prompt is not fatal: it is reported as "Error while reading user
\* input", counts as Answer::Retry and uses up one of the remaining attempts,
\* exactly like a failed read; a failed read and a rejected input leave the
\* loop running.
C14_FatalFailures ==
    [][ io' # io \/ Attempts' # Attempts \/ stdout' # stdout =>
          /\ io' = "print_fails" =>
                /\ pc' = "exited" /\ exit_code' = 101
                /\ stdout' = stdout /\ reads' = reads
                /\ stderr' = stderr /\ answers' = answers
          /\ io' = "echo_fails" =>
                /\ pc' = "exited" /\ exit_code' = 101
                /\ reads' = reads + 1
                /\ stderr' = stderr /\ answers' = answers
          /\ io' = "flush_fails" =>
                /\ pc' = "retry" /\ exit_code' = -1
                /\ reads' = reads
                /\ stderr' = Append(stderr, IoErrorMsg)
                /\ answers' = Append(answers, "Retry")
                /\ Bounded => AttemptsLeft' = AttemptsLeft - 1
          /\ (io' = "read_fails" \/ (io' = "read" /\ ~parsed'.ok)) =>
                /\ pc' = "retry" /\ exit_code' = -1
                /\ answers' = Append(answers, "Retry")
                /\ Len(stderr') = Len(stderr) + 1 ]_vars

\* a failed flush at the first attempt, then the loop asked again
C14_Witness ==
    /\ Attempts = 2
    /\ stderr = <<IoErrorMsg>>
    /\ reads = 1
    /\ Prompts = 2
    /\ io = "read"
    /\ parsed.ok

----------------------------------------------------------------------------
(* C15 *)

\* the last attempt gave Yes or No
LastDefinitive == Attempts >= 1 /\ answers[Attempts] \in {"Yes", "No"}

\* C15: "Retry count exceeded" is on stderr exactly when the loop ended
\* Exhausted, and then exactly once, as the last diagnostic; the loop ends
\* Exhausted only under Count(n), after 1 + n attempts none of which gave
\* Yes or No; a loop that ended with Yes or No never wrote it, also when the
\* answer came at attempt 1 + n.
C15_ExceededIffExhausted ==
    /\ ExceededEmitted <=> outcome = "Exhausted"
    /\ outcome = "Exhausted" =>
          /\ Bounded
          /\ Attempts = 1 + confirm.retry_mode.n
          /\ NoneDefinitive
          /\ stderr[Len(stderr)] = ExceededMsg
          /\ Cardinality({k \in DOMAIN stderr : stderr[k] = ExceededMsg}) = 1
    /\ (Returned /\ LastDefinitive) =>
          /\ outcome \in {"AcceptedTrue", "AcceptedFalse"}
          /\ ~ExceededEmitted
    /\ (Returned /\ outcome = "AcceptedFalse") => answers[Attempts] = "No"

\* Count(2): "no" at the third, last permitted attempt; exit 1, no message
C15_Witness ==
    /\ Bounded
    /\ confirm.retry_mode.n = 2
    /\ Attempts = 3
    /\ answers[3] = "No"
    /\ outcome = "AcceptedFalse"
    /\ ~ExceededEmitted
    /\ pc = "exited"
    /\ exit_code = 1

----------------------------------------------------------------------------
(* C16 *)

\* the prompts on stdout: everything but the line breaks after key presses
PromptWrites == {k \in DOMAIN stdout : stdout[k] # <<"\n">>}

\* C16: as many prompts have been written as reads were made, all prompts
\* are the same string, and no attempt changes the configuration.
C16_PromptsEqualReads ==
    /\ Cardinality(PromptWrites) = reads
    /\ \A j, k \in PromptWrites : stdout[j] = stdout[k]

\* C16, amended: every read is preceded, in the same attempt, by exactly one
\* write of the prompt; every write of the prompt is followed by one read,
\* except that a failed flush ends the attempt without a read, so the number
\* of reads never exceeds the number of prompts written; the prompt string
\* is the same at every attempt, and no attempt changes the command line,
\* the parsed options, the Confirm struct or the prepared prompt.
C16_PromptBeforeRead ==
    /\ [](reads <= Cardinality(PromptWrites))
    /\ [](\A j, k \in PromptWrites : stdout[j] = stdout[k])
    /\ [][ reads' # reads =>
             /\ reads' = reads + 1
             /\ Cardinality(PromptWrites') = Cardinality(PromptWrites) + 1
             /\ stdout'[Len(stdout) + 1] = prompt ]_vars
    /\ [][ PromptWrites' # PromptWrites =>
             /\ Cardinality(PromptWrites') = Cardinality(PromptWrites) + 1
             /\ io' = "flush_fails" => reads' = reads
             /\ io' # "flush_fails" => reads' = reads + 1 ]_vars
    /\ [][ Asking =>
             /\ confirm' = confirm
             /\ prompt' = prompt
             /\ argv' = argv
             /\ opts' = opts ]_vars

\* three prompts, the first of them lost in a failed flush, two reads
C16_Witness ==
    /\ Cardinality(PromptWrites) = 3
    /\ reads = 2
    /\ Attempts = 3
    /\ IoErrors = 1
    /\ io = "read"
    /\ stdout = <<prompt, prompt, prompt>>

----------------------------------------------------------------------------
(* C17 *)

\* C17: only the last attempt of a run can have given Yes or No; when it
\* did, at attempt k, ask_loop has returned that answer after exactly k
\* prompts; once ask_loop has returned (Accepted or Exhausted) no prompt, no
\* read and no attempt follows and its result does not change.
C17_FirstDefinitiveDecides ==
    /\ [](\A k \in 1..(Attempts - 1) : answers[k] = "Retry")
    /\ [](LastDefinitive =>
            /\ Returned
            /\ Prompts = Attempts
            /\ confirmed <=> answers[Attempts] = "Yes"
            /\ outcome = IF answers[Attempts] = "Yes"
                         THEN "AcceptedTrue" ELSE "AcceptedFalse")
    /\ [](Returned => (~ENABLED AnyAsk /\ ~ENABLED exceeded))
    /\ [][ Returned =>
             /\ stdout' = stdout
             /\ reads' = reads
             /\ answers' = answers
             /\ stderr' = stderr
             /\ outcome' = outcome
             /\ confirmed' = confirmed ]_vars

\* two attempts without an answer, "no" at the third, the process has exited
C17_Witness ==
    /\ Attempts = 3
    /\ answers = <<"Retry", "Retry", "No">>
    /\ Prompts = 3
    /\ reads = 3
    /\ outcome = "AcceptedFalse"
    /\ pc = "exited"
    /\ exit_code = 1

----------------------------------------------------------------------------
(* C18 *)

\* the option box as it stands in the prompt written to the terminal: what
\* follows the PROMPT argument and a blank, without the final ": "
ShownBox == SubSeq(prompt, Len(argv.prompt) + 2, Len(prompt) - 2)

SlashAt(box) == CHOOSE k \in DOMAIN box : box[k] = "/"

\* the two alternatives of a box "[<yes>/<no>]"
YesAlternative(box) == SubSeq(box, 2, SlashAt(box) - 1)
NoAlternative(box)  == SubSeq(box, SlashAt(box) + 1, Len(box) - 1)

IsUpperCase(s) == \A k \in DOMAIN s : \E u \in 1..26 : UpperChars[u] = s[k]

\* the answer the box shows in upper case ("Retry" when it shows none)
UpperCased(box) ==
    CASE IsUpperCase(YesAlternative(box)) /\ ~IsUpperCase(NoAlternative(box)) -> "Yes"
      [] IsUpperCase(NoAlternative(box)) /\ ~IsUpperCase(YesAlternative(box)) -> "No"
      [] ~IsUpperCase(YesAlternative(box)) /\ ~IsUpperCase(NoAlternative(box)) -> "Retry"
      [] OTHER -> "both"

\* the last attempt read an input that is empty after trimming
EmptyInputRead == Attempts >= 1 /\ io = "read" /\ trim(input_buf) = <<>>

\* C18: the box in the prompt has a yes and a no alternative, at most one of
\* them in upper case; an attempt that reads an empty input ends the loop with
\* the answer the box shows in upper case, and is an Answer::Retry exactly
\* when the box shows no alternative in upper case.
C18_BoxAgreesWithDefault ==
    Asking =>
      /\ ShownBox[1] = "[" /\ ShownBox[Len(ShownBox)] = "]"
      /\ to_ascii_lowercase(YesAlternative(ShownBox)) \in {<<"y","e","s">>, <<"y">>}
      /\ to_ascii_lowercase(NoAlternative(ShownBox)) \in {<<"n","o">>, <<"n">>}
      /\ UpperCased(ShownBox) \in {"Yes", "No", "Retry"}
      /\ EmptyInputRead =>
            /\ answers[Attempts] = UpperCased(ShownBox)
            /\ UpperCased(ShownBox) = "Yes" => outcome = "AcceptedTrue"
            /\ UpperCased(ShownBox) = "No" => outcome = "AcceptedFalse"
            /\ UpperCased(ShownBox) = "Retry" <=>
                  outcome \in {"Prompting", "Exhausted"}

\* "[y/N]" on the terminal, Enter pressed at a key prompt: the answer is No
C18_Witness ==
    /\ confirm.reader_type = "SingleChar"
    /\ ShownBox = <<"[","y","/","N","]">>
    /\ Attempts = 1
    /\ io = "read"
    /\ input_buf = <<"\r">>
    /\ outcome = "AcceptedFalse"

----------------------------------------------------------------------------
(* The bounded-loop specification: runs under Count(n) that keep going.
   The program is sequential and every call of a step returns, so a step
   that can be taken is taken: weak fairness of the next-state relation. *)

InitBounded ==
    /\ argv \in [full_words : BOOLEAN,
                 default : {<<"y","e","s">>, <<"n","o">>, <<"r","e","t","r","y">>},
                 no_enter : BOOLEAN,
                 ask_count : {Numeral(n) : n \in 1..MaxCount},
                 prompt : {<<"G","o">>},
                 always_yes : {FALSE}, always_no : {FALSE}]
    /\ stdin_tty = TRUE
    /\ Started

NextBounded ==
    \/ main_parse
    \/ main_dispatch
    \/ ask_first
    \/ ask_count
    \/ exceeded
    \/ main_exit

SpecBounded == InitBounded /\ [][NextBounded]_vars /\ WF_vars(NextBounded)

----------------------------------------------------------------------------
(* C19 *)

\* the retry budget left: iterations of the for loop not yet started
Budget == confirm.retry_mode.n - i

\* C19: under Count(n) a loop that has started eventually ends, in
\* Accepted(true), Accepted(false) or Exhausted (or the process has ended in
\* a panic of print!); n is in 1..255; the budget left is never below zero,
\* and every attempt after the first that gives no Yes and no No lowers it.
C19_BoundedTerminates ==
    /\ [](Bounded => (confirm.retry_mode.n \in 1..255 /\ Budget >= 0))
    /\ [][ (/\ Bounded
            /\ pc = "retry"
            /\ Attempts' = Attempts + 1
            /\ answers'[Attempts'] = "Retry") => Budget' < Budget ]_vars
    /\ (pc = "ask_first") ~>
          (\/ Returned /\ outcome \in {"AcceptedTrue", "AcceptedFalse", "Exhausted"}
           \/ pc = "exited" /\ exit_code = 101)
    /\ (pc = "ask_first") ~> (pc = "exited")

\* Count(3): the budget is used up and the loop has ended Exhausted
C19_Witness ==
    /\ Bounded
    /\ confirm.retry_mode.n = 3
    /\ Budget = 0
    /\ Attempts = 4
    /\ outcome = "Exhausted"
    /\ pc = "exited"

====
